---------------------------- MODULE Spec2Model ----------------------------
(***************************************************************************)
(* Model of product_scraper_async.py: login, the bounded-concurrency       *)
(* catalog collection, the price enrichment and the persistence step.      *)
(*                                                                         *)
(* Strings of the program are modelled as sequences of one-character       *)
(* strings, so that strip, split and join are computed character by        *)
(* character.                                                              *)
(***************************************************************************)
EXTENDS Integers, Sequences, FiniteSets, TLC

(***************************************************************************)
(* Bounds of the model.                                                    *)
(***************************************************************************)
\* Number of search terms (1296 in the source, line 80).
NumTerms == 3
\* Size of each stage's semaphore (10 in the source, line 24), scaled down
\* so that NumTerms tasks saturate it.
MAX_CONCURRENCY == 2
\* Longest text enumerated for the text-splitting helper.
MaxTextLen == 3

(***************************************************************************)
(* String helpers (str.strip, str.split, str.join, str()).                 *)
(***************************************************************************)
Space == " "
Slash == "/"

RECURSIVE LStrip(_)
LStrip(s) ==
    IF s # <<>> /\ Head(s) = Space THEN LStrip(Tail(s)) ELSE s

RECURSIVE RStrip(_)
RStrip(s) ==
    IF s # <<>> /\ s[Len(s)] = Space THEN RStrip(SubSeq(s, 1, Len(s) - 1)) ELSE s

\* str.strip()
Strip(s) == RStrip(LStrip(s))

\* text.split("/"): the segments between separators, empty ones included
RECURSIVE Split(_)
Split(s) ==
    IF \E i \in 1..Len(s) : s[i] = Slash
    THEN LET i == CHOOSE k \in 1..Len(s) :
                     s[k] = Slash /\ \A j \in 1..(k - 1) : s[j] # Slash
         IN  <<SubSeq(s, 1, i - 1)>> \o Split(SubSeq(s, i + 1, Len(s)))
    ELSE <<s>>

\* " / ".join(parts)
RECURSIVE Join(_)
Join(parts) ==
    IF parts = <<>> THEN <<>>
    ELSE IF Len(parts) = 1 THEN parts[1]
    ELSE parts[1] \o <<Space, Slash, Space>> \o Join(Tail(parts))

\* [p.strip() for p in segs if p.strip()]
RECURSIVE StripNonEmpty(_)
StripNonEmpty(segs) ==
    IF segs = <<>> THEN <<>>
    ELSE IF Strip(Head(segs)) # <<>>
         THEN <<Strip(Head(segs))>> \o StripNonEmpty(Tail(segs))
         ELSE StripNonEmpty(Tail(segs))

\* _parse_code_and_name with the single-segment branch dropping the code
ParseSingleSegmentNoCode(text) ==
    LET parts == StripNonEmpty(Split(text))
    IN  IF Len(parts) <= 1
        THEN [code |-> <<>>, name |-> Strip(text)]
        ELSE [code |-> parts[1], name |-> Join(Tail(parts))]

\* _parse_code_and_name joining every part, the code included, into the name
ParseJoinAllParts(text) ==
    LET parts == StripNonEmpty(Split(text))
    IN  IF parts = <<>>
        THEN [code |-> <<>>, name |-> Strip(text)]
        ELSE [code |-> parts[1],
              name |-> IF Len(parts) > 1 THEN Join(parts) ELSE Strip(text)]

\* _parse_code_and_name(text) -> (code, name)
parse_code_and_name(text) ==
    LET parts == StripNonEmpty(Split(text))
    IN  IF parts = <<>>
        THEN [code |-> <<>>, name |-> Strip(text)]
        ELSE [code |-> parts[1],
              name |-> IF Len(parts) > 1 THEN Join(Tail(parts)) ELSE Strip(text)]

(***************************************************************************)
(* JSON values, HTTP responses and the inputs of a run.                    *)
(***************************************************************************)
JStr(s) == [kind |-> "str", val |-> s]
JInt(n) == [kind |-> "int", val |-> n]
JDict(f) == [kind |-> "dict", fields |-> f]

DigitChars == <<"0", "1", "2", "3", "4", "5", "6", "7", "8", "9">>

\* decimal digits of a natural number
RECURSIVE Digits(_)
Digits(n) ==
    IF n < 10 THEN <<DigitChars[n + 1]>>
    ELSE Digits(n \div 10) \o <<DigitChars[(n % 10) + 1]>>

\* str(v) of a JSON string or integer
Str(v) == IF v.kind = "int" THEN Digits(v.val) ELSE v.val

\* item.get(key, "") of a JSON object
Get(item, key) ==
    IF key \in DOMAIN item.fields THEN item.fields[key] ELSE JStr(<<>>)

ItemAB       == JDict(("id" :> JStr(<<"1">>)) @@ ("text" :> JStr(<<"A", "/", "B">>)))
ItemABPadded == JDict(("id" :> JStr(<<" ", "1", " ">>))
                      @@ ("text" :> JStr(<<" ", "A", "/", "B">>)))
ItemC        == JDict(("id" :> JInt(1)) @@ ("text" :> JStr(<<"C">>)))
ItemNoText   == JDict("id" :> JStr(<<"2">>))
ItemSlash    == JDict(("id" :> JStr(<<"2">>)) @@ ("text" :> JStr(<<" ", "/">>)))
\* a list element that is a JSON string, not an object
ItemJunk     == JStr(<<"x">>)

ListBody(items) == [kind |-> "list", items |-> items]
ObjectBody      == [kind |-> "object"]
TextBody(t)     == [kind |-> "text", text |-> t]
NoBody          == [kind |-> "none"]

HttpResp(status, body) == [transport |-> FALSE, status |-> status, body |-> body]
\* the request raised (connect error, timeout, ...)
TransportError == [transport |-> TRUE, status |-> 0, body |-> NoBody]
\* no outcome recorded yet
NoResponse == [transport |-> FALSE, status |-> 0, body |-> NoBody]

\* httpx Response.is_success, which raise_for_status() tests
Is2xx(status) == status >= 200 /\ status <= 299

SearchResponses ==
    { TransportError,
      HttpResp(500, ListBody(<<ItemAB>>)),
      HttpResp(200, ObjectBody),
      HttpResp(200, ListBody(<<ItemAB, ItemABPadded, ItemC>>)),
      HttpResp(201, ListBody(<<ItemNoText, ItemSlash, ItemAB>>)),
      HttpResp(200, ListBody(<<ItemSlash, ItemJunk>>)) }

PriceResponses ==
    { TransportError,
      HttpResp(200, TextBody(<<" ", "9", " ">>)),
      HttpResp(201, TextBody(<<"9">>)),
      HttpResp(500, TextBody(<<"9">>)) }

LoginResponses ==
    { TransportError,
      HttpResp(204, NoBody),
      HttpResp(500, NoBody) }

\* os.getenv results: unset, set to "", set to a value
Absent == [present |-> FALSE, val |-> <<>>]
EnvValues == { Absent,
               [present |-> TRUE, val |-> <<>>],
               [present |-> TRUE, val |-> <<"u">>] }

\* datetime.now().date()
Dates == { [year |-> 2025, month |-> 11, day |-> 5] }

Terms == 1..NumTerms

(***************************************************************************)
(* The functions of the two fetch stages.                                  *)
(***************************************************************************)
\* fetch_products_for_term that ignores the status of the response
FetchProductsIgnoringStatus(resp) ==
    IF resp.transport THEN <<>>
    ELSE IF resp.body.kind = "list" THEN resp.body.items ELSE <<>>

\* what fetch_products_for_term returns for the outcome of its request
FetchProductsResult(resp) ==
    IF resp.transport THEN <<>>                  \* post raised
    ELSE IF ~Is2xx(resp.status) THEN <<>>        \* raise_for_status raised
    ELSE IF resp.body.kind = "list" THEN resp.body.items
    ELSE <<>>

\* key of an item in the catalog dict
ItemKey(item) ==
    <<Strip(Str(Get(item, "id"))), Strip(Str(Get(item, "text")))>>

CatalogKeys(cat) == { cat[i].key : i \in 1..Len(cat) }

\* the merge loop without the test "key not in catalog"
RECURSIVE MergeItemsNoDedup(_, _)
MergeItemsNoDedup(cat, items) ==
    IF items = <<>> THEN [catalog |-> cat, raised |-> FALSE]
    ELSE IF Head(items).kind # "dict" THEN [catalog |-> cat, raised |-> TRUE]
    ELSE LET key == ItemKey(Head(items))
         IN  IF key[1] # <<>> /\ key[2] # <<>>
             THEN MergeItemsNoDedup(
                      Append(cat, [key |-> key,
                                   value |-> [id |-> key[1], text |-> key[2]]]),
                      Tail(items))
             ELSE MergeItemsNoDedup(cat, Tail(items))

\* the merge loop with the dict keyed by the id alone: a later item with the
\* same id replaces the entry
RECURSIVE MergeItemsKeyedById(_, _)
MergeItemsKeyedById(cat, items) ==
    IF items = <<>> THEN [catalog |-> cat, raised |-> FALSE]
    ELSE IF Head(items).kind # "dict" THEN [catalog |-> cat, raised |-> TRUE]
    ELSE LET key == ItemKey(Head(items))
             IsOtherId(e) == e.key[1] # key[1]
         IN  IF key[1] # <<>> /\ key[2] # <<>>
             THEN MergeItemsKeyedById(
                      Append(SelectSeq(cat, IsOtherId),
                             [key |-> key,
                              value |-> [id |-> key[1], text |-> key[2]]]),
                      Tail(items))
             ELSE MergeItemsKeyedById(cat, Tail(items))

\* the merge loop without the test "key[0] and key[1]"
RECURSIVE MergeItemsKeepingIncomplete(_, _)
MergeItemsKeepingIncomplete(cat, items) ==
    IF items = <<>> THEN [catalog |-> cat, raised |-> FALSE]
    ELSE IF Head(items).kind # "dict" THEN [catalog |-> cat, raised |-> TRUE]
    ELSE LET key == ItemKey(Head(items))
         IN  IF key \notin CatalogKeys(cat)
             THEN MergeItemsKeepingIncomplete(
                      Append(cat, [key |-> key,
                                   value |-> [id |-> key[1], text |-> key[2]]]),
                      Tail(items))
             ELSE MergeItemsKeepingIncomplete(cat, Tail(items))

\* the loop "for item in items" of collect_full_catalog; the catalog dict is
\* the sequence of its (key, value) pairs in insertion order; raised is TRUE
\* when item.get fails on an item that is no JSON object
RECURSIVE MergeItems(_, _)
MergeItems(cat, items) ==
    IF items = <<>> THEN [catalog |-> cat, raised |-> FALSE]
    ELSE IF Head(items).kind # "dict" THEN [catalog |-> cat, raised |-> TRUE]
    ELSE LET key == ItemKey(Head(items))
         IN  IF key \notin CatalogKeys(cat) /\ key[1] # <<>> /\ key[2] # <<>>
             THEN MergeItems(
                      Append(cat, [key |-> key,
                                   value |-> [id |-> key[1], text |-> key[2]]]),
                      Tail(items))
             ELSE MergeItems(cat, Tail(items))

\* list(catalog.values())
CatalogValues(cat) == [i \in 1..Len(cat) |-> cat[i].value]

\* fetch_price that accepts every 2xx status
FetchPriceAny2xx(resp) ==
    IF resp.transport THEN <<>>
    ELSE IF Is2xx(resp.status) THEN Strip(resp.body.text)
    ELSE <<>>

\* what fetch_price returns for the outcome of its request
FetchPriceResult(resp) ==
    IF resp.transport THEN <<>>
    ELSE IF resp.status = 200 THEN Strip(resp.body.text)
    ELSE <<>>

\* the price cache: a mapping from product id to price
EmptyCache == [p \in {} |-> <<>>]

CachePut(cache, pid, price) ==
    [p \in (DOMAIN cache) \cup {pid} |-> IF p = pid THEN price ELSE cache[p]]

\* id_to_price.get(pid, "")
CacheGet(cache, pid) == IF pid \in DOMAIN cache THEN cache[pid] ELSE <<>>

NewPriceTask(pid) ==
    [pid |-> pid, state |-> "waiting", resp |-> NoResponse, result |-> <<>>]

\* the scheduling loop of enrich_with_prices: one task per product whose id is
\* not in the cache at that moment
RECURSIVE ScheduleFetches(_, _)
ScheduleFetches(products, cache) ==
    IF products = <<>> THEN <<>>
    ELSE IF Head(products).id \notin DOMAIN cache
         THEN <<NewPriceTask(Head(products).id)>>
                  \o ScheduleFetches(Tail(products), cache)
         ELSE ScheduleFetches(Tail(products), cache)

HasPrice(record) == record.marketing_price # <<>>

\* the projection loop leaving out the entries without a price
BuildEnrichedSkippingUnpriced(products, cache) ==
    SelectSeq([i \in 1..Len(products) |->
                  LET parsed == parse_code_and_name(products[i].text)
                  IN  [product_name |-> parsed.name,
                       product_code |-> parsed.code,
                       marketing_price |-> CacheGet(cache, products[i].id)]],
              HasPrice)

\* the projection loop of enrich_with_prices
BuildEnriched(products, cache) ==
    [i \in 1..Len(products) |->
        LET parsed == parse_code_and_name(products[i].text)
        IN  [product_name |-> parsed.name,
             product_code |-> parsed.code,
             marketing_price |-> CacheGet(cache, products[i].id)]]

(***************************************************************************)
(* Persistence: sorted(products, key = (product_name, product_code)) and   *)
(* strftime("%Y-%m-%d").                                                   *)
(***************************************************************************)
\* the characters of the model in code-point order
CodeOrder ==
    <<" ", "-", "/", "0", "1", "2", "3", "4", "5", "6", "7", "8", "9",
      "A", "B", "C", "D", "E", "F", "G", "H", "I", "J", "K", "L", "M",
      "N", "O", "P", "Q", "R", "S", "T", "U", "V", "W", "X", "Y", "Z",
      "a", "b", "c", "d", "e", "f", "g", "h", "i", "j", "k", "l", "m",
      "n", "o", "p", "q", "r", "s", "t", "u", "v", "w", "x", "y", "z">>

Ord(c) == CHOOSE i \in 1..Len(CodeOrder) : CodeOrder[i] = c

\* a < b for Python strings
RECURSIVE StrLess(_, _)
StrLess(a, b) ==
    IF b = <<>> THEN FALSE
    ELSE IF a = <<>> THEN TRUE
    ELSE IF Head(a) = Head(b) THEN StrLess(Tail(a), Tail(b))
    ELSE Ord(Head(a)) < Ord(Head(b))

\* the sort key (x["product_name"], x["product_code"]) of r1 is below r2's
KeyLess(r1, r2) ==
    \/ StrLess(r1.product_name, r2.product_name)
    \/ /\ r1.product_name = r2.product_name
       /\ StrLess(r1.product_code, r2.product_code)

\* insert r after the last element whose key is not above r's (stable)
RECURSIVE InsertSorted(_, _)
InsertSorted(sorted, r) ==
    IF sorted = <<>> THEN <<r>>
    ELSE IF KeyLess(r, Head(sorted)) THEN <<r>> \o sorted
    ELSE <<Head(sorted)>> \o InsertSorted(Tail(sorted), r)

\* sorted(products, key=...)
RECURSIVE SortProducts(_)
SortProducts(products) ==
    IF products = <<>> THEN <<>>
    ELSE InsertSorted(SortProducts(SubSeq(products, 1, Len(products) - 1)),
                      products[Len(products)])

\* n as decimal digits, zero-padded to width w
RECURSIVE Pad(_, _)
Pad(n, w) ==
    IF w = 0 THEN <<>> ELSE Pad(n \div 10, w - 1) \o <<DigitChars[(n % 10) + 1]>>

\* date_obj.strftime("%Y-%m-%d")
IsoDate(d) == Pad(d.year, 4) \o <<"-">> \o Pad(d.month, 2) \o <<"-">> \o Pad(d.day, 2)

(***************************************************************************)
(* State of a run.                                                         *)
(***************************************************************************)
VARIABLES
    pc,            \* position of async_main / main
    username,      \* os.getenv("ISLANDSUN_USERNAME")
    password,      \* os.getenv("ISLANDSUN_PASSWORD")
    client,        \* "none", "open" or "closed": the httpx.AsyncClient
    closeCount,    \* number of client.aclose() calls made
    exitCode,      \* -1 while running, then the exit code of the process
    raised,        \* TRUE once an exception propagates out of a stage
    loginReqs,     \* number of posts issued to LOGIN_URL
    loginLog,      \* outcomes of the login posts, in order
    searchTask,    \* term -> "none", "waiting", "inflight", "done", "cancelled"
    searchSem,     \* value of the catalog stage's semaphore
    searchReqs,    \* term -> number of posts issued to PRODUCT_URL
    searchResp,    \* term -> outcome of its post
    searchResult,  \* term -> list returned by fetch_products_for_term
    completed,     \* as_completed's queue: finished terms not yet merged
    mergedCount,   \* idx of the as_completed loop: results merged so far
    catalog,       \* the catalog dict, as (key, value) pairs in insertion order
    products,      \* the list passed to enrich_with_prices
    priceTasks,    \* fetch_tasks: one record per scheduled fetch_price task
    priceSem,      \* value of the price stage's semaphore
    priceReqs,     \* product id -> number of posts issued to PRICE_URL
    awaited,       \* number of fetch_tasks awaited by the cache loop
    id_to_price,   \* the price cache
    enriched,      \* the list returned by enrich_with_prices
    productsFile,  \* content of data/products.json, "unwritten" before
    lastUpdated,   \* content of data/last_updated.txt, "unwritten" before
    text,          \* argument of _parse_code_and_name under SpecParse
    parsed         \* its result under SpecParse

vars == <<pc, username, password, client, closeCount, exitCode, raised,
          loginReqs, loginLog, searchTask, searchSem, searchReqs, searchResp,
          searchResult, completed, mergedCount, catalog, products,
          priceTasks, priceSem, priceReqs, awaited, id_to_price, enriched,
          productsFile, lastUpdated, text, parsed>>

loginVars   == <<username, password, client, closeCount, loginReqs, loginLog>>
searchVars  == <<searchTask, searchSem, searchReqs, searchResp, searchResult,
                 completed, mergedCount, catalog>>
priceVars   == <<products, priceTasks, priceSem, priceReqs, awaited,
                 id_to_price, enriched>>
fileVars    == <<productsFile, lastUpdated>>
parseVars   == <<text, parsed>>

Unwritten == [written |-> FALSE, content |-> <<>>]
Written(c) == [written |-> TRUE, content |-> c]
NotParsed == [done |-> FALSE, code |-> <<>>, name |-> <<>>]

\* the state before main() runs, with the given environment
PipelineAt(u, p) ==
    /\ pc = "start"
    /\ username = u
    /\ password = p
    /\ client = "none"
    /\ closeCount = 0
    /\ exitCode = -1
    /\ raised = FALSE
    /\ loginReqs = 0
    /\ loginLog = <<>>
    /\ searchTask = [t \in Terms |-> "none"]
    /\ searchSem = 0
    /\ searchReqs = [t \in Terms |-> 0]
    /\ searchResp = [t \in Terms |-> NoResponse]
    /\ searchResult = [t \in Terms |-> <<>>]
    /\ completed = <<>>
    /\ mergedCount = 0
    /\ catalog = <<>>
    /\ products = <<>>
    /\ priceTasks = <<>>
    /\ priceSem = 0
    /\ priceReqs = [p0 \in {} |-> 0]
    /\ awaited = 0
    /\ id_to_price = EmptyCache
    /\ enriched = <<>>
    /\ productsFile = Unwritten
    /\ lastUpdated = Unwritten

Init ==
    /\ \E u \in EnvValues, p \in EnvValues : PipelineAt(u, p)
    /\ text = <<>>
    /\ parsed = NotParsed

(***************************************************************************)
(* login()                                                                 *)
(***************************************************************************)
\* a test "is None" in place of "not"
FalsyOnlyUnset(v) == ~v.present

\* "not username" / "not password": unset or empty
Falsy(v) == ~v.present \/ v.val = <<>>

\* lines 42-46: credentials missing, sys.exit(2)
LoginMissingCredentials ==
    /\ pc = "start"
    /\ Falsy(username) \/ Falsy(password)
    /\ pc' = "exit"
    /\ exitCode' = 2
    /\ UNCHANGED <<loginVars, raised, searchVars, priceVars, fileVars, parseVars>>

\* lines 48-51: the client is created and the first post is issued
LoginFirstPost ==
    /\ pc = "start"
    /\ ~(Falsy(username) \/ Falsy(password))
    /\ client' = "open"
    /\ loginReqs' = loginReqs + 1
    /\ pc' = "login1"
    /\ UNCHANGED <<username, password, closeCount, loginLog, exitCode, raised,
                   searchVars, priceVars, fileVars, parseVars>>

\* lines 56-59: except Exception: aclose, sys.exit(3)
LoginFails ==
    /\ client' = "closed"
    /\ closeCount' = closeCount + 1
    /\ exitCode' = 3
    /\ pc' = "exit"
    /\ UNCHANGED loginReqs

\* the second post succeeds whatever its status
SecondPostAcceptsAnyStatus(r) == ~r.transport

\* lines 52-53: the second post returned and raise_for_status() passes
SecondPostOk(r) == ~r.transport /\ Is2xx(r.status)

\* line 51 returns or raises; line 52 issues the second post
LoginFirstPostReturns(r) ==
    /\ pc = "login1"
    /\ loginLog' = Append(loginLog, r)
    /\ IF r.transport
       THEN LoginFails
       ELSE /\ loginReqs' = loginReqs + 1
            /\ pc' = "login2"
            /\ UNCHANGED <<client, closeCount, exitCode>>
    /\ UNCHANGED <<username, password, raised, searchVars, priceVars, fileVars,
                   parseVars>>

\* lines 52-55: the second post returns or raises
LoginSecondPostReturns(r) ==
    /\ pc = "login2"
    /\ loginLog' = Append(loginLog, r)
    /\ IF SecondPostOk(r)
       THEN /\ pc' = "collect"
            /\ UNCHANGED <<client, closeCount, exitCode, loginReqs>>
       ELSE LoginFails
    /\ UNCHANGED <<username, password, raised, searchVars, priceVars, fileVars,
                   parseVars>>

(***************************************************************************)
(* The semaphore of a stage ("async with semaphore").                      *)
(***************************************************************************)
\* an acquire that never waits
SemNeverBlocks(value) == TRUE

\* Semaphore.acquire() returns only while the value is positive
SemFree(value) == value > 0

Count(m, k) == IF k \in DOMAIN m THEN m[k] ELSE 0
Incr(m, k) == [x \in (DOMAIN m) \cup {k} |-> IF x = k THEN Count(m, k) + 1 ELSE m[x]]

(***************************************************************************)
(* collect_full_catalog()                                                  *)
(***************************************************************************)
\* lines 79-90: the semaphore and one task per term are created
CollectStart ==
    /\ pc = "collect"
    /\ searchSem' = MAX_CONCURRENCY
    /\ searchTask' = [t \in Terms |-> "waiting"]
    /\ pc' = "collecting"
    /\ UNCHANGED <<loginVars, exitCode, raised, searchReqs, searchResp,
                   searchResult, completed, mergedCount, catalog, priceVars,
                   fileVars, parseVars>>

\* lines 64-66: a task enters the semaphore and issues its post
SearchAcquire(t) ==
    /\ pc \in {"collecting", "finally"}
    /\ searchTask[t] = "waiting"
    /\ SemFree(searchSem)
    /\ searchSem' = searchSem - 1
    /\ searchTask' = [searchTask EXCEPT ![t] = "inflight"]
    /\ searchReqs' = [searchReqs EXCEPT ![t] = @ + 1]
    /\ UNCHANGED <<pc, loginVars, exitCode, raised, searchResp, searchResult,
                   completed, mergedCount, catalog, priceVars, fileVars,
                   parseVars>>

\* a release written after the request instead of "async with": a post that
\* raises keeps its slot
SearchReturnLeakOnError(t, r) ==
    /\ pc \in {"collecting", "finally"}
    /\ searchTask[t] = "inflight"
    /\ searchSem' = IF r.transport THEN searchSem ELSE searchSem + 1
    /\ searchTask' = [searchTask EXCEPT ![t] = "done"]
    /\ searchResp' = [searchResp EXCEPT ![t] = r]
    /\ searchResult' = [searchResult EXCEPT ![t] = FetchProductsResult(r)]
    /\ completed' = Append(completed, t)
    /\ UNCHANGED <<pc, loginVars, exitCode, raised, searchReqs, mergedCount,
                   catalog, priceVars, fileVars, parseVars>>

\* lines 66-71: the post returns or raises, the task leaves the semaphore
\* and returns its list
SearchReturn(t, r) ==
    /\ pc \in {"collecting", "finally"}
    /\ searchTask[t] = "inflight"
    /\ searchSem' = searchSem + 1
    /\ searchTask' = [searchTask EXCEPT ![t] = "done"]
    /\ searchResp' = [searchResp EXCEPT ![t] = r]
    /\ searchResult' = [searchResult EXCEPT ![t] = FetchProductsResult(r)]
    /\ completed' = Append(completed, t)
    /\ UNCHANGED <<pc, loginVars, exitCode, raised, searchReqs, mergedCount,
                   catalog, priceVars, fileVars, parseVars>>

\* lines 90-97: one iteration of the as_completed loop
MergeNext ==
    /\ pc = "collecting"
    /\ completed # <<>>
    /\ completed' = Tail(completed)
    /\ LET m == MergeItems(catalog, searchResult[Head(completed)])
       IN  /\ catalog' = m.catalog
           /\ IF m.raised
              THEN /\ raised' = TRUE
                   /\ pc' = "finally"
                   /\ UNCHANGED mergedCount
              ELSE /\ mergedCount' = mergedCount + 1
                   /\ UNCHANGED <<raised, pc>>
    /\ UNCHANGED <<loginVars, exitCode, searchTask, searchSem, searchReqs,
                   searchResp, searchResult, priceVars, fileVars, parseVars>>

\* a return as soon as every term's request has been issued
CollectReturnWithoutDraining ==
    /\ pc = "collecting"
    /\ \A t \in Terms : searchTask[t] \in {"inflight", "done"}
    /\ products' = CatalogValues(catalog)
    /\ pc' = "enrich"
    /\ UNCHANGED <<loginVars, exitCode, raised, searchVars, priceTasks, priceSem,
                   priceReqs, awaited, id_to_price, enriched, fileVars,
                   parseVars>>

\* a return as soon as one result has been merged
CollectReturnEarly ==
    /\ pc = "collecting"
    /\ mergedCount >= 1
    /\ products' = CatalogValues(catalog)
    /\ pc' = "enrich"
    /\ UNCHANGED <<loginVars, exitCode, raised, searchVars, priceTasks, priceSem,
                   priceReqs, awaited, id_to_price, enriched, fileVars,
                   parseVars>>

\* lines 98-100: the loop has run once per term; return list(catalog.values())
CollectReturn ==
    /\ pc = "collecting"
    /\ mergedCount = NumTerms
    /\ products' = CatalogValues(catalog)
    /\ pc' = "enrich"
    /\ UNCHANGED <<loginVars, exitCode, raised, searchVars, priceTasks, priceSem,
                   priceReqs, awaited, id_to_price, enriched, fileVars,
                   parseVars>>

(***************************************************************************)
(* enrich_with_prices()                                                    *)
(***************************************************************************)
\* lines 121-133: the semaphore and the fetch tasks are created
EnrichStart ==
    /\ pc = "enrich"
    /\ priceSem' = MAX_CONCURRENCY
    /\ priceTasks' = ScheduleFetches(products, id_to_price)
    /\ pc' = "pricing"
    /\ UNCHANGED <<loginVars, exitCode, raised, searchVars, products, priceReqs,
                   awaited, id_to_price, enriched, fileVars, parseVars>>

\* lines 105-107: a task enters the semaphore and issues its post
PriceAcquire(i) ==
    /\ pc = "pricing"
    /\ priceTasks[i].state = "waiting"
    /\ SemFree(priceSem)
    /\ priceSem' = priceSem - 1
    /\ priceTasks' = [priceTasks EXCEPT ![i].state = "inflight"]
    /\ priceReqs' = Incr(priceReqs, priceTasks[i].pid)
    /\ UNCHANGED <<pc, loginVars, exitCode, raised, searchVars, products,
                   awaited, id_to_price, enriched, fileVars, parseVars>>

\* lines 107-113: the post returns or raises, the task leaves the semaphore
\* and returns its price
PriceReturn(i, r) ==
    /\ pc = "pricing"
    /\ priceTasks[i].state = "inflight"
    /\ priceSem' = priceSem + 1
    /\ priceTasks' = [priceTasks EXCEPT ![i].state = "done",
                                        ![i].resp = r,
                                        ![i].result = FetchPriceResult(r)]
    /\ UNCHANGED <<pc, loginVars, exitCode, raised, searchVars, products,
                   priceReqs, awaited, id_to_price, enriched, fileVars,
                   parseVars>>

\* lines 136-137: the next task of fetch_tasks is awaited into the cache
AwaitPrice ==
    /\ pc = "pricing"
    /\ awaited < Len(priceTasks)
    /\ priceTasks[awaited + 1].state = "done"
    /\ id_to_price' = CachePut(id_to_price, priceTasks[awaited + 1].pid,
                               priceTasks[awaited + 1].result)
    /\ awaited' = awaited + 1
    /\ UNCHANGED <<pc, loginVars, exitCode, raised, searchVars, products,
                   priceTasks, priceSem, priceReqs, enriched, fileVars,
                   parseVars>>

\* a projection pass taking each entry's price from the entry's own fetch
\* task instead of the cache
ProjectPerTask ==
    /\ pc = "pricing"
    /\ awaited = Len(priceTasks)
    /\ enriched' = [i \in 1..Len(products) |->
                       [BuildEnriched(products, id_to_price)[i]
                            EXCEPT !.marketing_price = priceTasks[i].result]]
    /\ pc' = "save"
    /\ UNCHANGED <<loginVars, exitCode, raised, searchVars, products, priceTasks,
                   priceSem, priceReqs, awaited, id_to_price, fileVars,
                   parseVars>>

\* lines 140-155: the projection pass
Project ==
    /\ pc = "pricing"
    /\ awaited = Len(priceTasks)
    /\ enriched' = BuildEnriched(products, id_to_price)
    /\ pc' = "save"
    /\ UNCHANGED <<loginVars, exitCode, raised, searchVars, products, priceTasks,
                   priceSem, priceReqs, awaited, id_to_price, fileVars,
                   parseVars>>

(***************************************************************************)
(* save_json(), write_last_updated_file(), the end of async_main and main. *)
(***************************************************************************)
\* lines 158-165
SaveJson ==
    /\ pc = "save"
    /\ productsFile' = Written(SortProducts(enriched))
    /\ pc' = "stamp"
    /\ UNCHANGED <<loginVars, exitCode, raised, searchVars, priceVars,
                   lastUpdated, parseVars>>

\* lines 168-174, 184-185
WriteLastUpdated(d) ==
    /\ pc = "stamp"
    /\ lastUpdated' = Written(IsoDate(d))
    /\ pc' = "finally"
    /\ UNCHANGED <<loginVars, exitCode, raised, searchVars, priceVars,
                   productsFile, parseVars>>

\* the close written after the stages instead of in a finally clause
CloseClientUnlessRaised ==
    /\ pc = "finally"
    /\ client' = IF raised THEN client ELSE "closed"
    /\ closeCount' = IF raised THEN closeCount ELSE closeCount + 1
    /\ pc' = "closed"
    /\ UNCHANGED <<username, password, loginReqs, loginLog, exitCode, raised,
                   searchVars, priceVars, fileVars, parseVars>>

\* lines 186-187: finally: await client.aclose()
CloseClient ==
    /\ pc = "finally"
    /\ client' = "closed"
    /\ closeCount' = closeCount + 1
    /\ pc' = "closed"
    /\ UNCHANGED <<username, password, loginReqs, loginLog, exitCode, raised,
                   searchVars, priceVars, fileVars, parseVars>>

\* line 192: asyncio.run returns or re-raises after cancelling the tasks
\* that are left; a cancelled task leaves its semaphore
RunnerExit ==
    /\ pc = "closed"
    /\ searchTask' = [t \in Terms |->
                        IF searchTask[t] \in {"waiting", "inflight"}
                        THEN "cancelled" ELSE searchTask[t]]
    /\ searchSem' = searchSem
                      + Cardinality({t \in Terms : searchTask[t] = "inflight"})
    /\ exitCode' = IF raised THEN 1 ELSE 0
    /\ pc' = "exit"
    /\ UNCHANGED <<loginVars, raised, searchReqs, searchResp, searchResult,
                   completed, mergedCount, catalog, priceVars, fileVars,
                   parseVars>>

Next ==
    \/ LoginMissingCredentials
    \/ LoginFirstPost
    \/ \E r \in LoginResponses : LoginFirstPostReturns(r)
    \/ \E r \in LoginResponses : LoginSecondPostReturns(r)
    \/ CollectStart
    \/ \E t \in Terms : SearchAcquire(t)
    \/ \E t \in Terms, r \in SearchResponses : SearchReturn(t, r)
    \/ MergeNext
    \/ CollectReturn
    \/ EnrichStart
    \/ \E i \in 1..Len(priceTasks) : PriceAcquire(i)
    \/ \E i \in 1..Len(priceTasks), r \in PriceResponses : PriceReturn(i, r)
    \/ AwaitPrice
    \/ Project
    \/ SaveJson
    \/ \E d \in Dates : WriteLastUpdated(d)
    \/ CloseClient
    \/ RunnerExit

Spec == Init /\ [][Next]_vars

(***************************************************************************)
(* _parse_code_and_name applied to enumerated texts.                       *)
(***************************************************************************)
TextChars == {"A", "B", Space, Slash}

\* the examples of the text-splitting rule
TextWidget ==
    <<"A", "B", "1", "2", "3", " ", "/", " ",
      "W", "i", "d", "g", "e", "t", " ", "D", "e", "l", "u", "x", "e">>
TextJustAName == <<"J", "u", "s", "t", "A", "N", "a", "m", "e">>
TextABC == <<"A", " ", "/", " ", "B", " ", "/", " ", "C">>

ParseInputs ==
    UNION { [1..n -> TextChars] : n \in 0..MaxTextLen }
        \cup {TextWidget, TextJustAName, TextABC}

InitParse ==
    /\ PipelineAt(Absent, Absent)
    /\ text \in ParseInputs
    /\ parsed = NotParsed

\* one call of _parse_code_and_name(text)
ParseText ==
    /\ ~parsed.done
    /\ parsed' = [done |-> TRUE,
                  code |-> parse_code_and_name(text).code,
                  name |-> parse_code_and_name(text).name]
    /\ UNCHANGED <<pc, loginVars, exitCode, raised, searchVars, priceVars,
                   fileVars, text>>

NextParse == ParseText

SpecParse == InitParse /\ [][NextParse]_vars

(***************************************************************************)
(* Properties.                                                             *)
(***************************************************************************)
SearchInFlight == { t \in Terms : searchTask[t] = "inflight" }
SearchWaiting  == { t \in Terms : searchTask[t] = "waiting" }
PriceInFlight  == { i \in 1..Len(priceTasks) : priceTasks[i].state = "inflight" }
PriceWaiting   == { i \in 1..Len(priceTasks) : priceTasks[i].state = "waiting" }
PriceDone      == { i \in 1..Len(priceTasks) : priceTasks[i].state = "done" }

SeqSum(f, S) == LET RECURSIVE Sum(_)
                    Sum(T) == IF T = {} THEN 0
                              ELSE LET x == CHOOSE y \in T : TRUE
                                   IN  f[x] + Sum(T \ {x})
                IN  Sum(S)

TotalSearchReqs == SeqSum(searchReqs, Terms)
TotalPriceReqs  == SeqSum(priceReqs, DOMAIN priceReqs)

MissingCredentials ==
    \/ ~username.present \/ username.val = <<>>
    \/ ~password.present \/ password.val = <<>>

\* collect_full_catalog has just returned its list, which is not changed
\* afterwards
CatalogReturned == pc = "enrich"

ProductPairs == { <<products[i].id, products[i].text>> : i \in 1..Len(products) }
ProductIds   == { products[i].id : i \in 1..Len(products) }

\* the request of a term failed: transport error, non-2xx, or no list body
TermFailed(r) == r.transport \/ ~Is2xx(r.status) \/ r.body.kind # "list"

\* the items of a response that was received with a 2xx status and a list body
ItemsOf(r) ==
    IF TermFailed(r) THEN {} ELSE { r.body.items[i] : i \in 1..Len(r.body.items) }

\* the trimmed (id, text) pair of an item
PairOf(item) == <<Strip(Str(Get(item, "id"))), Strip(Str(Get(item, "text")))>>

\* the pairs with non-empty id and text over the items of the terms in T
PairsOver(T) ==
    { pr \in { PairOf(it) : it \in UNION { ItemsOf(searchResp[t]) : t \in T } } :
        pr[1] # <<>> /\ pr[2] # <<>> }

\* C1: at most MAX_CONCURRENCY search fetches hold a slot of the catalog
\* stage's semaphore, and at most MAX_CONCURRENCY price fetches hold a slot of
\* the price stage's semaphore, in every reachable state.
C1_ConcurrencyBound ==
    /\ Cardinality(SearchInFlight) <= MAX_CONCURRENCY
    /\ Cardinality(PriceInFlight) <= MAX_CONCURRENCY

\* the catalog stage is saturated while a further task waits for a slot
C1_Witness ==
    /\ Cardinality(SearchInFlight) = MAX_CONCURRENCY
    /\ SearchWaiting # {}

\* C2: when the price stage has finished, exactly one price request has been
\* issued for each distinct id of the catalog.
C2_OneFetchPerDistinctId ==
    pc = "save" =>
        /\ DOMAIN priceReqs = ProductIds
        /\ \A pid \in ProductIds : priceReqs[pid] = 1

\* C3: the returned catalog holds exactly the distinct trimmed (id, text)
\* pairs, both non-empty, of the items of all successful term responses, each
\* exactly once.
C3_CatalogIsDistinctPairs ==
    CatalogReturned =>
        /\ ProductPairs = PairsOver(Terms)
        /\ \A i, j \in 1..Len(products) :
              (products[i].id = products[j].id /\ products[i].text = products[j].text)
                  => i = j

\* a pair returned by two terms, and twice by one of them, in a returned
\* catalog of three entries
C3_Witness ==
    /\ CatalogReturned
    /\ Len(products) = 3
    /\ \E t1, t2 \in Terms :
          /\ t1 # t2
          /\ ItemAB \in ItemsOf(searchResp[t1])
          /\ ItemABPadded \in ItemsOf(searchResp[t1])
          /\ ItemAB \in ItemsOf(searchResp[t2])

\* C4: a term whose request fails returns the empty list, never raises out of
\* the collection, and the returned catalog is the merge of the other terms'
\* results.
C4_FailedTermIsEmpty ==
    /\ \A t \in Terms :
          (searchTask[t] = "done" /\ TermFailed(searchResp[t]))
              => searchResult[t] = <<>>
    /\ (raised => \E t \in Terms : searchTask[t] = "done" /\ ~TermFailed(searchResp[t]))
    /\ CatalogReturned =>
          ProductPairs = PairsOver({ t \in Terms : ~TermFailed(searchResp[t]) })

\* a returned, non-empty catalog after one term failed with a non-2xx status
\* whose body lists an item and another failed in transport
C4_Witness ==
    /\ CatalogReturned
    /\ products # <<>>
    /\ \E t1, t2 \in Terms :
          /\ searchResp[t1] = HttpResp(500, ListBody(<<ItemAB>>))
          /\ searchResp[t2] = TransportError

\* C5: a run that passed authentication ends with exit code 0 and both files
\* written, whatever the outcomes of its search and price requests.
C5_RequestsNeverEndRun ==
    (pc = "exit" /\ exitCode \notin {2, 3}) =>
        /\ exitCode = 0
        /\ productsFile.written
        /\ lastUpdated.written

\* C6 as stated: the price of a finished fetch is the trimmed body for every
\* 2xx status, and empty otherwise.
C6_PriceForAny2xx ==
    \A i \in PriceDone :
        LET r == priceTasks[i].resp
        IN  priceTasks[i].result =
                IF ~r.transport /\ Is2xx(r.status) THEN Strip(r.body.text) ELSE <<>>

\* C6 (amended): the price of a finished fetch is the trimmed body when the
\* status is exactly 200 and is empty for every other status and for a
\* transport failure; the price stage never raises.
C6_PriceFor200Only ==
    /\ \A i \in PriceDone :
          LET r == priceTasks[i].resp
          IN  /\ r.transport => priceTasks[i].result = <<>>
              /\ (~r.transport /\ r.status = 200)
                    => priceTasks[i].result = Strip(r.body.text)
              /\ (~r.transport /\ r.status # 200) => priceTasks[i].result = <<>>
    /\ \A i \in 1..awaited :
          priceTasks[i].pid \in DOMAIN id_to_price
    /\ raised => priceTasks = <<>>

\* finished fetches with a 200, a 201 and a failed request
C6_Witness ==
    /\ \E i \in PriceDone :
          /\ priceTasks[i].resp = HttpResp(200, TextBody(<<" ", "9", " ">>))
          /\ priceTasks[i].result = <<"9">>
    /\ \E i \in PriceDone :
          /\ priceTasks[i].resp = HttpResp(201, TextBody(<<"9">>))
          /\ priceTasks[i].result = <<>>
    /\ \E i \in PriceDone : priceTasks[i].resp = TransportError

\* C7: the client is closed at most once, and exactly once by the end of
\* every run that created it.
C7_ClosedExactlyOnce ==
    /\ closeCount <= 1
    /\ client = "none" => closeCount = 0
    /\ (pc = "exit" /\ client # "none") => (closeCount = 1 /\ client = "closed")

\* a run that ended on an exception of the catalog stage
C7_Witness ==
    /\ pc = "exit"
    /\ raised
    /\ exitCode = 1
    /\ closeCount = 1

\* C8: with a credential unset or empty, no client is created, no request of
\* any kind is issued, and the run ends with exit code 2.
C8_MissingCredentials ==
    MissingCredentials =>
        /\ client = "none"
        /\ closeCount = 0
        /\ loginReqs = 0
        /\ TotalSearchReqs = 0
        /\ TotalPriceReqs = 0
        /\ pc \in {"start", "exit"}
        /\ pc = "exit" => exitCode = 2

\* the run has ended with a username and an empty password
C8_Witness ==
    /\ pc = "exit"
    /\ exitCode = 2
    /\ username.present /\ username.val # <<>>
    /\ password.present /\ password.val = <<>>

\* both posts returned and the second has a 2xx status
HandshakeOk ==
    /\ Len(loginLog) = 2
    /\ ~loginLog[1].transport
    /\ ~loginLog[2].transport
    /\ loginLog[2].status >= 200 /\ loginLog[2].status <= 299

\* C9: with both credentials present, login succeeds exactly when both posts
\* return and the second has a 2xx status; otherwise the run ends with exit
\* code 3, the client closed, and no search or price request issued.
C9_AuthIffHandshake ==
    (~MissingCredentials /\ pc \notin {"start", "login1", "login2"}) =>
        IF HandshakeOk
        THEN exitCode \notin {2, 3}
        ELSE /\ pc = "exit"
             /\ exitCode = 3
             /\ client = "closed"
             /\ closeCount = 1
             /\ TotalSearchReqs = 0
             /\ TotalPriceReqs = 0
             /\ \A t \in Terms : searchTask[t] = "none"

\* login succeeded although the first post returned 500
C9_Witness ==
    /\ HandshakeOk
    /\ loginLog[1].status = 500
    /\ pc = "collecting"

NoSlash(s) == \A i \in 1..Len(s) : s[i] # Slash

\* C10 as stated: the three examples, and an empty code with the text as name
\* for every text without "/".
C10_ExamplesAsStated ==
    parsed.done =>
        /\ text = TextWidget =>
              /\ parsed.code = <<"A", "B", "1", "2", "3">>
              /\ parsed.name = <<"W", "i", "d", "g", "e", "t", " ",
                                 "D", "e", "l", "u", "x", "e">>
        /\ text = TextJustAName =>
              (parsed.code = <<>> /\ parsed.name = TextJustAName)
        /\ text = TextABC =>
              (parsed.code = <<"A">> /\ parsed.name = <<"B", " ", "/", " ", "C">>)
        /\ NoSlash(text) => (parsed.code = <<>> /\ parsed.name = Strip(text))

\* C10 (amended): the first and third example as stated; "JustAName" gives
\* code "JustAName" and name "JustAName"; every text without "/" gives its
\* trimmed text as both code and name.
C10_ExamplesAmended ==
    parsed.done =>
        /\ text = TextWidget =>
              /\ parsed.code = <<"A", "B", "1", "2", "3">>
              /\ parsed.name = <<"W", "i", "d", "g", "e", "t", " ",
                                 "D", "e", "l", "u", "x", "e">>
        /\ text = TextJustAName =>
              (parsed.code = TextJustAName /\ parsed.name = TextJustAName)
        /\ text = TextABC =>
              (parsed.code = <<"A">> /\ parsed.name = <<"B", " ", "/", " ", "C">>)
        /\ NoSlash(text) =>
              (parsed.code = Strip(text) /\ parsed.name = Strip(text))

\* "JustAName" has been split
C10_Witness ==
    /\ parsed.done
    /\ text = TextJustAName
    /\ parsed.code = TextJustAName

\* collect_full_catalog has returned at some earlier point of the run
CatalogHandedOver ==
    \/ pc \in {"enrich", "pricing", "save", "stamp"}
    \/ pc \in {"finally", "closed", "exit"} /\ productsFile.written

\* C11: once collect_full_catalog has returned, the task of every term has
\* completed, no finished result is left unmerged, and the number of merged
\* results equals the number of terms.
C11_ReturnAfterAllTerms ==
    CatalogHandedOver =>
        /\ \A t \in Terms : searchTask[t] = "done"
        /\ completed = <<>>
        /\ mergedCount = NumTerms

\* the catalog has just been returned after a term was absorbed as empty and
\* another contributed entries
C11_Witness ==
    /\ pc = "enrich"
    /\ mergedCount = NumTerms
    /\ \E t \in Terms : searchResp[t] = TransportError
    /\ \E t \in Terms : searchResult[t] # <<>>

\* the catalog obtained by merging the results of terms t..NumTerms into cat
\* in term order
RECURSIVE MergedInTermOrder(_, _)
MergedInTermOrder(cat, t) ==
    IF t > NumTerms THEN cat
    ELSE MergedInTermOrder(MergeItems(cat, searchResult[t]).catalog, t + 1)

EntrySet(entries) == { entries[i] : i \in 1..Len(entries) }

\* C12: for the responses the terms received, the returned catalog has the
\* same set of entries as the merge in term order, whatever the order in
\* which the fetches completed.
C12_SetIndependentOfOrder ==
    pc = "enrich" =>
        LET reference == CatalogValues(MergedInTermOrder(<<>>, 1))
        IN  /\ EntrySet(products) = EntrySet(reference)
            /\ Len(products) = Len(reference)

\* a returned catalog of three entries whose enumeration order differs from
\* that of the merge in term order
C12_Witness ==
    /\ pc = "enrich"
    /\ Len(products) = 3
    /\ products # CatalogValues(MergedInTermOrder(<<>>, 1))

\* C13: when the client has been closed no launched task is still waiting
\* or in flight, and no task is ever cancelled.
C13_NoTaskLeftAtRelease ==
    /\ client = "closed" =>
          /\ \A t \in Terms : searchTask[t] \notin {"waiting", "inflight"}
          /\ PriceWaiting = {}
          /\ PriceInFlight = {}
    /\ \A t \in Terms : searchTask[t] # "cancelled"

\* the positions that delimit the segments of s: before the first character,
\* every "/", and after the last character
Boundaries(s) == {0, Len(s) + 1} \cup { i \in 1..Len(s) : s[i] = Slash }

\* the k-th boundary of s in increasing order
NthBoundary(s, k) ==
    CHOOSE b \in Boundaries(s) :
        Cardinality({ x \in Boundaries(s) : x < b }) = k - 1

\* s without its leading and trailing spaces
Trimmed(s) ==
    LET solid == { i \in 1..Len(s) : s[i] # Space }
    IN  IF solid = {} THEN <<>>
        ELSE SubSeq(s, CHOOSE i \in solid : \A j \in solid : i <= j,
                       CHOOSE i \in solid : \A j \in solid : i >= j)

IsNonEmpty(s) == s # <<>>

\* the segments of s between "/", each trimmed, the empty ones dropped
Segments(s) ==
    SelectSeq([k \in 1..(Cardinality(Boundaries(s)) - 1) |->
                  Trimmed(SubSeq(s, NthBoundary(s, k) + 1,
                                    NthBoundary(s, k + 1) - 1))],
              IsNonEmpty)

\* segs[k], ..., segs[Len(segs)] joined with " / "
RECURSIVE JoinedFrom(_, _)
JoinedFrom(segs, k) ==
    IF k = Len(segs) THEN segs[k]
    ELSE segs[k] \o <<" ", "/", " ">> \o JoinedFrom(segs, k + 1)

\* C14: with the trimmed non-empty segments of the text: none gives an empty
\* code and the trimmed text as name; one gives that segment as code and the
\* trimmed text as name; two or more give the first as code and the others
\* joined with " / " as name.
C14_SplitRule ==
    parsed.done =>
        LET segs == Segments(text)
        IN  /\ Len(segs) = 0 =>
                  (parsed.code = <<>> /\ parsed.name = Trimmed(text))
            /\ Len(segs) = 1 =>
                  (parsed.code = segs[1] /\ parsed.name = Trimmed(text))
            /\ Len(segs) >= 2 =>
                  (parsed.code = segs[1] /\ parsed.name = JoinedFrom(segs, 2))

\* a text with a "/" and a single non-empty segment has been split
C14_Witness ==
    /\ parsed.done
    /\ text = <<"/", "A", " ">>
    /\ parsed.code = <<"A">>
    /\ parsed.name = <<"/", "A">>

\* C15: enrich_with_prices returns one record per catalog entry, in catalog
\* order, with the split of the entry's text and the cached price of its id;
\* at that point every price task is done and awaited and every id is cached.
C15_OneRecordPerEntry ==
    pc = "save" =>
        /\ Len(enriched) = Len(products)
        /\ \A i \in 1..Len(priceTasks) : priceTasks[i].state = "done"
        /\ awaited = Len(priceTasks)
        /\ \A i \in 1..Len(products) :
              /\ products[i].id \in DOMAIN id_to_price
              /\ i <= Len(enriched) =>
                    /\ enriched[i].product_code =
                           parse_code_and_name(products[i].text).code
                    /\ enriched[i].product_name =
                           parse_code_and_name(products[i].text).name
                    /\ enriched[i].marketing_price = id_to_price[products[i].id]

\* three records have been returned, with and without a price
C15_Witness ==
    /\ pc = "save"
    /\ Len(enriched) = 3
    /\ \E i \in 1..Len(enriched) : enriched[i].marketing_price = <<"9">>
    /\ \E i \in 1..Len(enriched) : enriched[i].marketing_price = <<>>

\* the price stage's semaphore and tasks exist
PriceStageStarted == CatalogHandedOver /\ pc # "enrich"

\* C16: the slots taken from a stage's semaphore are exactly those of the
\* tasks whose request is executing; a waiting task has issued no request, a
\* task in flight or done exactly one; with no task in flight all slots are
\* free.
C16_SlotHeldOnlyInFlight ==
    /\ (\A t \in Terms : searchTask[t] # "none") =>
          searchSem = MAX_CONCURRENCY - Cardinality(SearchInFlight)
    /\ \A t \in Terms :
          /\ searchTask[t] = "waiting" => searchReqs[t] = 0
          /\ searchTask[t] \in {"inflight", "done"} => searchReqs[t] = 1
    /\ PriceStageStarted =>
          priceSem = MAX_CONCURRENCY - Cardinality(PriceInFlight)
    /\ pc = "pricing" =>
          TotalPriceReqs = Len(priceTasks) - Cardinality(PriceWaiting)

\* every search task has completed, one of them on a transport error, and
\* all slots are free
C16_Witness ==
    /\ pc = "collecting"
    /\ \A t \in Terms : searchTask[t] = "done"
    /\ \E t \in Terms : searchResp[t] = TransportError
    /\ searchSem = MAX_CONCURRENCY

CatalogWellFormed ==
    \A i \in 1..Len(catalog) :
        /\ catalog[i].key[1] # <<>>
        /\ catalog[i].key[2] # <<>>
        /\ catalog[i].value = [id |-> catalog[i].key[1], text |-> catalog[i].key[2]]
        /\ \A j \in 1..Len(catalog) : j # i => catalog[j].key # catalog[i].key

CatalogOnlyGrows ==
    \A i \in 1..Len(catalog) : \E j \in 1..Len(catalog') : catalog'[j] = catalog[i]

\* C17: in every reachable state the catalog's keys have a non-empty id and
\* text, each entry carries its key's id and text, and no key occurs twice;
\* every step keeps every entry the catalog already holds.
C17_CatalogInvariant == []CatalogWellFormed /\ [][CatalogOnlyGrows]_vars

\* all terms have been merged into three entries; one result held an item
\* without text and two results held the same item
C17_Witness ==
    /\ pc = "collecting"
    /\ mergedCount = NumTerms
    /\ Len(catalog) = 3
    /\ \E t \in Terms : ItemNoText \in ItemsOf(searchResp[t])
    /\ \E t, u \in Terms :
          t # u /\ ItemAB \in ItemsOf(searchResp[t]) /\ ItemAB \in ItemsOf(searchResp[u])

\* C18: no term is requested more than once, and a run that got past the
\* login has requested every term exactly once when it ends.
C18_OneRequestPerTerm ==
    /\ \A t \in Terms : searchReqs[t] <= 1
    /\ (pc = "exit" /\ exitCode \notin {2, 3}) =>
          \A t \in Terms : searchReqs[t] = 1

\* C19: once the price tasks exist every search task is done, from then on
\* no search request is issued, and the requests in flight over both stages
\* never exceed MAX_CONCURRENCY.
C19_StagesNeverOverlap ==
    /\ [](/\ priceTasks # <<>> =>
               \A t \in Terms : searchTask[t] = "done" /\ searchReqs[t] = 1
          /\ Cardinality(SearchInFlight) + Cardinality(PriceInFlight)
                 <= MAX_CONCURRENCY)
    /\ [][priceTasks # <<>> => searchReqs' = searchReqs]_vars

\* the price stage has all its slots taken, after every search task is done
C19_Witness ==
    /\ pc = "pricing"
    /\ Cardinality(PriceInFlight) = MAX_CONCURRENCY
    /\ \A t \in Terms : searchTask[t] = "done"

\* C20: in the list returned by enrich_with_prices the records of two
\* entries with the same id carry the same marketing_price.
C20_SameIdSamePrice ==
    pc = "save" =>
        \A i, j \in 1..Len(products) :
            (i <= Len(enriched) /\ j <= Len(enriched)
               /\ products[i].id = products[j].id)
            => enriched[i].marketing_price = enriched[j].marketing_price

\* two entries share an id and their two requests returned different prices
C20_Witness ==
    /\ pc = "save"
    /\ Len(priceTasks) = Len(products)
    /\ \E i, j \in 1..Len(products) :
          /\ i # j
          /\ products[i].id = products[j].id
          /\ priceTasks[i].result # priceTasks[j].result

=============================================================================
